---- MODULE Spec2Model ----
(***************************************************************************)
(* git-tree (src/main.rs): a status tree is assembled from the records of  *)
(* a repository's status (walk_entries / Tree::add_leaf_at_path), composed  *)
(* over nested repositories by a depth-bounded directory walk (walk_path /  *)
(* walk_directory / fallback / run / main) and rendered as box-drawn lines *)
(* (Lines::lines).                                                         *)
(*                                                                         *)
(* Strings are sequences of character codes, so that OsString's ordering   *)
(* (lexicographic) and concatenation are what the code computes.           *)
(***************************************************************************)
EXTENDS Integers, Sequences, FiniteSets, TLC

VARIABLES
    args,       \* the parsed command line (struct Args)
    e_pc,       \* walk_entries: position in the function
    e_items,    \* walk_entries: the status items the iterator has yielded
    e_root,     \* walk_entries: the local `root` Tree
    e_out,      \* the lines of the finished tree (Node::lines)
    r_repo,     \* walk_repository: the repository it is called on
    r_name,     \* walk_repository: the name it is called with
    r_result,   \* walk_repository: what it returned
    pc,         \* run / main: position in the program
    stack,      \* the walk_path and walk_directory calls in progress
    ret,        \* what the top-level walk_path call returned
    run_node,   \* run: the local `node`
    stdout,     \* the lines printed to standard output
    run_result, \* what run returned to main
    exit_code,  \* the status the process ends with
    fs,         \* what the file system and git answered, by path
    opened,     \* the repository opened at the starting path, if any
    fb_ret      \* what fallback returned, once it was called

evars == <<e_pc, e_items, e_root, e_out>>

rvars == <<r_repo, r_name, r_result>>

wvars == <<pc, stack, ret, run_node, stdout, run_result, exit_code, fs, opened, fb_ret>>

vars == <<args, evars, rvars, wvars>>

----------------------------------------------------------------------------
\* Characters and strings.

\* the component names the model draws from: "a", "ab", "b"
Names == {<<97>>, <<97, 98>>, <<98>>}

\* the names of the components below a path's first one: "a", "b"
DeepNames == {<<97>>, <<98>>}

\* "."
DotName == <<46>>

\* "├── "
TeePrefix == <<9500, 9472, 9472, 32>>

\* "│   "
BarPrefix == <<9474, 32, 32, 32>>

\* "└── "
EllPrefix == <<9492, 9472, 9472, 32>>

\* "    "
BlankPrefix == <<32, 32, 32, 32>>

\* Ord for OsString: lexicographic on the characters
StrLess(s, t) ==
    \E i \in 1..(Len(t)) :
        /\ i <= Len(s) + 1
        /\ \A j \in 1..(i - 1) : s[j] = t[j]
        /\ (i = Len(s) + 1 \/ s[i] < t[i])

----------------------------------------------------------------------------
\* Node, Tree, Summary, Leaf.

Statuses ==
    {"WorktreeRemoved", "WorktreeAdded", "WorktreeModified", "IndexRemoved",
     "IndexAdded", "IndexModified", "TypeChange", "Renamed", "Copied",
     "IntentToAdd", "Conflict", "Ignored"}

MkTree(name, children) == [kind |-> "Tree", name |-> name, children |-> children]

MkLeaf(name, status) == [kind |-> "Leaf", name |-> name, status |-> status]

MkSummary(name, stats) == [kind |-> "Summary", name |-> name, stats |-> stats]

\* BTreeMap<OsString, Node>: the entries, kept in ascending key order
BTreeHas(map, key) == \E i \in 1..Len(map) : map[i].key = key

BTreeGet(map, key) == map[CHOOSE i \in 1..Len(map) : map[i].key = key].node

\* a map that keeps its entries in the order they were inserted
InsertUnordered(map, key, node) ==
    IF BTreeHas(map, key)
    THEN [i \in 1..Len(map) |->
            IF map[i].key = key THEN [key |-> key, node |-> node] ELSE map[i]]
    ELSE Append(map, [key |-> key, node |-> node])

\* BTreeMap::insert: replaces the value of a key that is present
BTreeInsert(map, key, node) ==
    IF BTreeHas(map, key)
    THEN [i \in 1..Len(map) |->
            IF map[i].key = key THEN [key |-> key, node |-> node] ELSE map[i]]
    ELSE LET below == Cardinality({i \in 1..Len(map) : StrLess(map[i].key, key)})
         IN  SubSeq(map, 1, below) \o <<[key |-> key, node |-> node]>>
                \o SubSeq(map, below + 1, Len(map))

\* BTreeMap::values
BTreeValues(map) == [i \in 1..Len(map) |-> map[i].node]

\* Tree::add_node
add_node(tree, node, name) ==
    MkTree(tree.name, BTreeInsert(tree.children, name, node))

\* Tree::add_node_at_path; path holds Component::Normal components only
RECURSIVE add_node_at_path(_, _, _, _)
add_node_at_path(tree, node, name, path) ==
    IF path = <<>>
    THEN add_node(tree, node, name)
    ELSE LET dir == Head(path)
             \* entry(dir).or_insert(Tree { dir, {} })
             withDir == IF BTreeHas(tree.children, dir)
                        THEN tree.children
                        ELSE BTreeInsert(tree.children, dir, MkTree(dir, <<>>))
             new_node == BTreeGet(withDir, dir)
         IN  IF new_node.kind = "Tree"
             THEN MkTree(tree.name,
                         BTreeInsert(withDir, dir,
                                     add_node_at_path(new_node, node, name, Tail(path))))
             ELSE MkTree(tree.name, withDir)

\* Tree::add_leaf_at_path
add_leaf_at_path(tree, leaf, path) == add_node_at_path(tree, leaf, leaf.name, path)

----------------------------------------------------------------------------
\* Rendering (trait Lines).

\* The decimal digits of n, as format!("{}", n) writes a usize
RECURSIVE Decimal(_)
Decimal(n) == IF n < 10 THEN <<48 + n>> ELSE Decimal(n \div 10) \o <<48 + (n % 10)>>

\* ansi_term: Style::paint writes ESC [ codes m, the text, ESC [ 0 m
Paint(codes, text) == <<27, 91>> \o codes \o <<109>> \o text \o <<27, 91, 48, 109>>

\* Fixed(244)
Gray == <<51, 56, 59, 53, 59, 50, 52, 52>>

\* Lines::prepend
prepend(lines, with) == [i \in 1..Len(lines) |-> with \o lines[i]]

\* a prepend_first_and_rest that gives every line the first line's prefix
PrependFirstToAll(lines, first_with, rest_with) ==
    <<first_with \o lines[1]>> \o prepend(Tail(lines), first_with)

\* Lines::prepend_first_and_rest; lines is never empty
prepend_first_and_rest(lines, first_with, rest_with) ==
    <<first_with \o lines[1]>> \o prepend(Tail(lines), rest_with)

\* impl Lines for Leaf
LeafLines(leaf) ==
    LET style == CASE leaf.status = "WorktreeModified" -> <<51, 49>>
                   [] leaf.status = "IndexModified" -> <<49, 59, 51, 49>>
                   [] leaf.status = "WorktreeAdded" -> <<51, 50>>
                   [] leaf.status = "IndexAdded" -> <<49, 59, 51, 50>>
                   [] leaf.status = "Ignored" -> <<51, 52>>
                   [] OTHER -> <<51, 55>>
        modifier_index == CASE leaf.status = "IndexModified" -> <<77>>
                            [] leaf.status = "IndexAdded" -> <<78>>
                            [] OTHER -> <<45>>
        modifier_worktree == CASE leaf.status = "WorktreeModified" -> <<77>>
                               [] leaf.status = "WorktreeAdded" -> <<78>>
                               [] leaf.status = "WorktreeRemoved" -> <<68>>
                               [] OTHER -> <<45>>
    IN  << Paint(Gray, modifier_index) \o Paint(Gray, modifier_worktree)
             \o <<32>> \o Paint(style, leaf.name) >>

\* impl Lines for Summary: "{} {} +{} -{} ({})"
SummaryLines(node) ==
    << node.name \o <<32>>
         \o Paint(Gray, <<91>> \o node.stats.branch \o <<93>>)
         \o <<32, 43>> \o Paint(<<51, 50>>, Decimal(node.stats.insertions))
         \o <<32, 45>> \o Paint(<<51, 49>>, Decimal(node.stats.deletions))
         \o <<32, 40>> \o Paint(<<51, 51>>, Decimal(node.stats.files_changed))
         \o <<41>> >>

\* flat_map: the concatenation of a sequence of line sequences
RECURSIVE Flatten(_)
Flatten(seqs) == IF seqs = <<>> THEN <<>> ELSE Head(seqs) \o Flatten(Tail(seqs))

\* impl Lines for Node, with impl Lines for Tree
RECURSIVE lines(_)
lines(node) ==
    CASE node.kind = "Leaf" -> LeafLines(node)
      [] node.kind = "Summary" -> SummaryLines(node)
      [] OTHER ->
           LET children == BTreeValues(node.children)
               split_at == IF Len(children) = 0 THEN 0 ELSE Len(children) - 1
               rest == SubSeq(children, 1, split_at)
               last == SubSeq(children, split_at + 1, Len(children))
           IN  <<node.name>>
                 \o Flatten([i \in 1..Len(rest) |->
                       prepend_first_and_rest(lines(rest[i]), TeePrefix, BarPrefix)])
                 \o (IF last # <<>>
                     THEN prepend_first_and_rest(lines(last[1]), EllPrefix, BlankPrefix)
                     ELSE <<>>)

----------------------------------------------------------------------------
\* The collaborators: the status source, the diff statistics, the file system.

\* longest status path, in components
MaxPathLen == 2

\* most status items one repository yields in walk_entries
MaxItems == 3

\* largest count in a repository's diff statistics
MaxStat == 1

\* largest --depth
MaxDepth == 2

\* most directory entries the file system holds below the starting path
MaxEntries == 3

\* the paths a status item can name: 1..MaxPathLen components
RECURSIVE PathsOfLen(_)
PathsOfLen(n) ==
    IF n = 1 THEN {<<c>> : c \in Names}
    ELSE {p \o <<c>> : p \in PathsOfLen(n - 1), c \in DeepNames}

StatusPaths == UNION {PathsOfLen(n) : n \in 1..MaxPathLen}

\* the statuses the status source reports in the model
ItemStatuses == {"WorktreeModified", "Ignored"}

\* Path::parent().components() and file_name() of a status path
ParentOf(path) == SubSeq(path, 1, Len(path) - 1)

\* file_name(path): the last component, and "." for the starting path "."
file_name(path) == IF path = <<>> THEN DotName ELSE path[Len(path)]

\* struct DiffStat; the branch is "m"
MkStats(files_changed, insertions, deletions) ==
    [branch |-> <<109>>, files_changed |-> files_changed,
     insertions |-> insertions, deletions |-> deletions]

\* a repository as git answers for it: whether its status and statistics
\* can be computed (ok), its statistics and its status items
MkRepo(ok, stats, items) == [exists |-> TRUE, ok |-> ok, stats |-> stats, items |-> items]

NoRepo == [exists |-> FALSE, ok |-> FALSE, stats |-> MkStats(0, 0, 0), items |-> {}]

\* Result<Option<Node>>
OkSome(n) == [tag |-> "Some", node |-> n, error |-> ""]

OkNone == [tag |-> "None", node |-> MkTree(<<>>, <<>>), error |-> ""]

Err(e) == [tag |-> "Err", node |-> MkTree(<<>>, <<>>), error |-> e]

Pending == [tag |-> "Pending", node |-> MkTree(<<>>, <<>>), error |-> ""]

Accepted(all, items) == {it \in items : all \/ it.status # "Ignored"}

\* the loop of walk_entries over a repository's items, in one fixed order
RECURSIVE EntriesTree(_, _)
EntriesTree(name, items) ==
    IF items = {} THEN MkTree(name, <<>>)
    ELSE LET it == CHOOSE x \in items : TRUE
         IN  add_leaf_at_path(EntriesTree(name, items \ {it}),
                              MkLeaf(file_name(it.path), it.status), ParentOf(it.path))

\* walk_entries
walk_entries(repo, name, a) ==
    IF ~repo.ok THEN Err("status")
    ELSE OkSome(EntriesTree(name, Accepted(a.all, repo.items)))

\* a walk_summary that suppresses a repository without changed files
SummaryByFilesChanged(repo, name, a) ==
    IF ~repo.ok THEN Err("diffstat")
    ELSE IF a.only_show_changes /\ repo.stats.files_changed = 0
         THEN OkNone
         ELSE OkSome(MkSummary(name, repo.stats))

\* walk_summary
walk_summary(repo, name, a) ==
    IF ~repo.ok THEN Err("diffstat")
    ELSE IF a.only_show_changes /\ repo.stats.insertions = 0 /\ repo.stats.deletions = 0
         THEN OkNone
         ELSE OkSome(MkSummary(name, repo.stats))

\* walk_repository
walk_repository(repo, name, a) ==
    IF a.summary THEN walk_summary(repo, name, a) ELSE walk_entries(repo, name, a)

----------------------------------------------------------------------------
\* The values of the variables of the parts a specification leaves alone.

EIdle ==
    /\ e_pc = "idle"
    /\ e_items = {}
    /\ e_root = MkTree(DotName, <<>>)
    /\ e_out = <<>>

RIdle ==
    /\ r_repo = NoRepo
    /\ r_name = DotName
    /\ r_result = Pending

WIdle ==
    /\ pc = "idle"
    /\ stack = <<>>
    /\ ret = Pending
    /\ run_node = Pending
    /\ stdout = <<>>
    /\ run_result = "none"
    /\ exit_code = -1
    /\ fs = {}
    /\ opened = NoRepo
    /\ fb_ret = Pending

----------------------------------------------------------------------------
\* walk_entries: one repository's status, assembled into a tree.

EInit ==
    /\ args \in [all : BOOLEAN, summary : {FALSE}, only_show_changes : {FALSE},
                 depth : {0}]
    /\ e_pc = "open"
    /\ e_items = {}
    /\ e_root = MkTree(DotName, <<>>)
    /\ e_out = <<>>
    /\ RIdle
    /\ WIdle

\* lines 313-322: the repository is opened and `root` is created
EOpen ==
    /\ e_pc = "open"
    /\ e_pc' = "loop"
    /\ e_root' = MkTree(DotName, <<>>)
    /\ UNCHANGED <<args, e_items, e_out, rvars, wvars>>

\* lines 324-343: one turn of the loop over the status items, in the order
\* the status source yields them; item paths are pairwise distinct
EItem ==
    /\ e_pc = "loop"
    /\ Cardinality(e_items) < MaxItems
    /\ \E path \in StatusPaths, status \in ItemStatuses :
        /\ \A it \in e_items : it.path # path
        /\ e_items' = e_items \cup {[path |-> path, status |-> status]}
        /\ e_root' = IF args.all \/ status # "Ignored"
                     THEN add_leaf_at_path(e_root, MkLeaf(file_name(path), status),
                                           ParentOf(path))
                     ELSE e_root
    /\ UNCHANGED <<args, e_pc, e_out, rvars, wvars>>

\* line 345 and Display for Node: the finished tree is returned and rendered
ERender ==
    /\ e_pc = "loop"
    /\ e_pc' = "done"
    /\ e_out' = lines(e_root)
    /\ UNCHANGED <<args, e_items, e_root, rvars, wvars>>

ENext == EOpen \/ EItem \/ ERender

SpecEntries == EInit /\ [][ENext]_vars

----------------------------------------------------------------------------
\* walk_repository, applied to one repository.

\* the diff statistics git can report, each count in 0..MaxStat
AllStats ==
    {MkStats(f, i, d) : f \in 0..MaxStat, i \in 0..MaxStat, d \in 0..MaxStat}

\* the status items of the repositories below
SomeItems == {{}, {[path |-> <<<<97>>>>, status |-> "WorktreeModified"]}}

RInit ==
    /\ args \in [all : {FALSE}, summary : BOOLEAN, only_show_changes : BOOLEAN,
                 depth : {0}]
    /\ r_repo \in {MkRepo(ok, st, it) : ok \in BOOLEAN, st \in AllStats, it \in SomeItems}
    /\ r_name \in Names \cup {DotName}
    /\ r_result = Pending
    /\ EIdle
    /\ WIdle

\* lines 304-310: the call
RCall ==
    /\ r_result = Pending
    /\ r_result' = walk_repository(r_repo, r_name, args)
    /\ UNCHANGED <<args, r_repo, r_name, evars, wvars>>

RNext == RCall

SpecRepository == RInit /\ [][RNext]_vars

----------------------------------------------------------------------------
\* run and main: the depth-bounded walk from the starting path ".".
\*
\* A path is the sequence of entry names below the starting path.  The file
\* system and git answer when the code asks; fs keeps their answers:
\*   "listed"      an entry a read_dir yielded, not yet walked
\*   "bad"         an entry whose read_dir item was an Err
\*   "file"        not a directory
\*   "repo_node", "repo_none", "repo_err"
\*                 a repository, by what walk_repository returned for it
\*   "dir"         a plain directory that was listed
\*   "unreadable"  a plain directory whose read_dir failed
\*   "dir0"        a plain directory met with no depth left
\*   "repo_deep"   a repository that would yield a node, directly below a
\*                 "dir0" directory

\* the names of directory entries: "a", "b"
EntryNames == {<<97>>, <<98>>}

\* stands for the name of an entry that could not be read: "?"
BadName == <<63>>

\* the repositories the walk meets
WalkStats == {MkStats(1, 0, 0), MkStats(1, 1, 0)}

WalkRepos ==
    {MkRepo(FALSE, MkStats(0, 0, 0), {})}
      \cup {MkRepo(TRUE, st, it) : st \in WalkStats, it \in SomeItems}

Frame(fn, path, depth, directories) ==
    [fn |-> fn, path |-> path, depth |-> depth, directories |-> directories,
     new_entries |-> <<>>, result |-> Pending]

SetKind(files, path, kind) ==
    {r \in files : r.path # path} \cup {[path |-> path, kind |-> kind]}

KindAt(files, path) == (CHOOSE r \in files : r.path = path).kind

\* the directory entries the file system has shown so far
Used == Cardinality({r \in fs : Len(r.path) >= 1 /\ r.kind # "repo_deep"})

Top == stack[Len(stack)]

SetTop(frame) == [stack EXCEPT ![Len(stack)] = frame]

\* a walk_path that descends at any depth
DescendAlways(depth) == depth >= 0

\* walk_path, line 401: whether a plain directory is descended into
MayDescend(depth) == depth > 0

\* a walk_directory that hands its own depth on
SameDepth(depth) == depth

\* walk_directory, line 378: the depth of the recursive walk_path calls
ChildDepth(depth) == depth - 1

\* a walk_directory that gives up what it collected when an entry fails
CollectOrNothing(new_entries, result, name) ==
    CASE result.tag = "Some" -> Append(new_entries, [node |-> result.node, file_name |-> name])
      [] result.tag = "Err" -> <<>>
      [] OTHER -> new_entries

\* walk_directory, lines 377-381: .ok().and_then(|child| child.map(..))
Collect(new_entries, result, name) ==
    IF result.tag = "Some"
    THEN Append(new_entries, [node |-> result.node, file_name |-> name])
    ELSE new_entries

\* walk_directory, lines 384-386: the collected nodes are added by name
RECURSIVE AddAll(_, _)
AddAll(tree, new_entries) ==
    IF new_entries = <<>> THEN tree
    ELSE AddAll(add_node(tree, Head(new_entries).node, Head(new_entries).file_name),
                Tail(new_entries))

\* a walk of a directory that yields no node when nothing was found in it
NoneWhenEmpty(tree) == IF tree.children = <<>> THEN OkNone ELSE OkSome(tree)

\* walk_directory, line 388, and walk_path, line 404: Ok(Some(node))
DirectoryResult(tree) == OkSome(tree)

\* the exit status of a process whose main returns: 0
MainExitCode == 0

WInit ==
    /\ args \in [all : {FALSE}, summary : BOOLEAN, only_show_changes : BOOLEAN,
                 depth : 0..MaxDepth]
    /\ pc = "run"
    /\ stack = <<>>
    /\ ret = Pending
    /\ run_node = Pending
    /\ stdout = <<>>
    /\ run_result = "none"
    /\ exit_code = -1
    /\ fs = {}
    /\ opened = NoRepo
    /\ fb_ret = Pending
    /\ EIdle
    /\ RIdle

\* run, line 471: walk_path(".", args.depth, &args) is called
WRun ==
    /\ pc = "run"
    /\ pc' = "walk"
    /\ stack' = <<Frame("walk_path", <<>>, args.depth, {})>>
    /\ UNCHANGED <<args, ret, run_node, stdout, run_result, exit_code, fs, opened,
                   fb_ret, evars, rvars>>

AtWalkPath ==
    /\ pc = "walk"
    /\ stack # <<>>
    /\ Top.fn = "walk_path"
    /\ Top.result = Pending
    /\ (IF Len(stack) = 1 THEN TRUE ELSE stack[Len(stack) - 1].fn = "walk_directory")

\* walk_path, lines 392, 410-412: the path is not a directory
WPathNotDir ==
    /\ AtWalkPath
    /\ stack' = SetTop([Top EXCEPT !.result = OkNone])
    /\ fs' = SetKind(fs, Top.path, "file")
    /\ UNCHANGED <<args, pc, ret, run_node, stdout, run_result, exit_code, opened,
                   fb_ret, evars, rvars>>

\* walk_path, lines 393-398: the path is a repository
WPathRepo ==
    /\ AtWalkPath
    /\ \E repo \in WalkRepos :
        LET result == walk_repository(repo, file_name(Top.path), args)
        IN  /\ stack' = SetTop([Top EXCEPT !.result = result])
            /\ fs' = SetKind(fs, Top.path,
                             CASE result.tag = "Some" -> "repo_node"
                               [] result.tag = "None" -> "repo_none"
                               [] OTHER -> "repo_err")
            /\ opened' = IF Top.path = <<>> THEN repo ELSE opened
    /\ UNCHANGED <<args, pc, ret, run_node, stdout, run_result, exit_code,
                   fb_ret, evars, rvars>>

\* walk_path, lines 400-402: a plain directory, depth left, read_dir fails
WPathReadDirErr ==
    /\ AtWalkPath
    /\ MayDescend(Top.depth)
    /\ stack' = SetTop([Top EXCEPT !.result = Err("read_dir")])
    /\ fs' = SetKind(fs, Top.path, "unreadable")
    /\ UNCHANGED <<args, pc, ret, run_node, stdout, run_result, exit_code, opened,
                   fb_ret, evars, rvars>>

\* walk_path, lines 400-402, and walk_directory, lines 368-373: a plain
\* directory, depth left; read_dir yields entries, the Err ones are dropped
WPathList ==
    /\ AtWalkPath
    /\ MayDescend(Top.depth)
    /\ \E names \in SUBSET EntryNames, bad \in BOOLEAN :
        /\ Used + Cardinality(names) + (IF bad THEN 1 ELSE 0) <= MaxEntries
        /\ fs' = SetKind(fs, Top.path, "dir")
                   \cup {[path |-> Top.path \o <<n>>, kind |-> "listed"] : n \in names}
                   \cup (IF bad THEN {[path |-> Top.path \o <<BadName>>, kind |-> "bad"]}
                         ELSE {})
        /\ stack' = Append(stack, Frame("walk_directory", Top.path, Top.depth, names))
    /\ UNCHANGED <<args, pc, ret, run_node, stdout, run_result, exit_code, opened,
                   fb_ret, evars, rvars>>

\* walk_path, lines 405-407: a plain directory and no depth left; whether a
\* repository lies in it is not looked at
WPathNoDepth ==
    /\ AtWalkPath
    /\ ~MayDescend(Top.depth)
    /\ stack' = SetTop([Top EXCEPT !.result = OkNone])
    /\ \E deep \in BOOLEAN :
        fs' = SetKind(fs, Top.path, "dir0")
                \cup (IF deep
                      THEN {[path |-> Top.path \o <<n>>, kind |-> "repo_deep"] :
                              n \in {<<97>>}}
                      ELSE {})
    /\ UNCHANGED <<args, pc, ret, run_node, stdout, run_result, exit_code, opened,
                   fb_ret, evars, rvars>>

\* walk_directory, line 378: walk_path is called on the next entry
WDirCall ==
    /\ pc = "walk"
    /\ stack # <<>>
    /\ Top.fn = "walk_directory"
    /\ \E entry \in Top.directories :
        stack' = Append(SetTop([Top EXCEPT !.directories = @ \ {entry}]),
                        Frame("walk_path", Top.path \o <<entry>>, ChildDepth(Top.depth), {}))
    /\ UNCHANGED <<args, pc, ret, run_node, stdout, run_result, exit_code, fs, opened,
                   fb_ret, evars, rvars>>

\* walk_directory, lines 384-388: every entry is walked; the tree is returned
\* to the walk_path that called, which returns it (line 404)
WDirReturn ==
    /\ pc = "walk"
    /\ stack # <<>>
    /\ Top.fn = "walk_directory"
    /\ Top.directories = {}
    /\ Len(stack) >= 2
    /\ stack[Len(stack) - 1].result = Pending
    /\ LET tree == AddAll(MkTree(file_name(Top.path), <<>>), Top.new_entries)
           below == stack[Len(stack) - 1]
       IN  stack' = Append(SubSeq(stack, 1, Len(stack) - 2),
                           [below EXCEPT !.result = DirectoryResult(tree)])
    /\ UNCHANGED <<args, pc, ret, run_node, stdout, run_result, exit_code, fs, opened,
                   fb_ret, evars, rvars>>

\* a walk_path call returns: to walk_directory (lines 378-381), or to run
WPathReturn ==
    /\ pc = "walk"
    /\ stack # <<>>
    /\ Top.fn = "walk_path"
    /\ Top.result # Pending
    /\ IF Len(stack) = 1
       THEN /\ stack' = <<>>
            /\ ret' = Top.result
            /\ pc' = "match"
       ELSE LET below == stack[Len(stack) - 1]
            IN  /\ stack' = Append(SubSeq(stack, 1, Len(stack) - 2),
                                   [below EXCEPT !.new_entries =
                                       Collect(@, Top.result, file_name(Top.path))])
                /\ UNCHANGED <<ret, pc>>
    /\ UNCHANGED <<args, run_node, stdout, run_result, exit_code, fs, opened,
                   fb_ret, evars, rvars>>

\* run, lines 471-473: `?` on the result of walk_path, Some(_) is kept
WMatchErr ==
    /\ pc = "match"
    /\ ret.tag = "Err"
    /\ run_result' = ret.error
    /\ pc' = "main"
    /\ UNCHANGED <<args, stack, ret, run_node, stdout, exit_code, fs, opened,
                   fb_ret, evars, rvars>>

WMatchSome ==
    /\ pc = "match"
    /\ ret.tag = "Some"
    /\ run_node' = ret
    /\ pc' = "print"
    /\ UNCHANGED <<args, stack, ret, stdout, run_result, exit_code, fs, opened,
                   fb_ret, evars, rvars>>

\* run, line 473: None => fallback(path, &args)
WMatchNone ==
    /\ pc = "match"
    /\ ret.tag = "None"
    /\ pc' = "fallback"
    /\ UNCHANGED <<args, stack, ret, run_node, stdout, run_result, exit_code, fs,
                   opened, fb_ret, evars, rvars>>

\* fallback, lines 416-427: no repository at the path or above it
WFallbackNotFound ==
    /\ pc = "fallback"
    /\ ~opened.exists
    /\ fb_ret' = Err("no git repository found, try --depth")
    /\ run_result' = "no git repository found, try --depth"
    /\ pc' = "main"
    /\ UNCHANGED <<args, stack, ret, run_node, stdout, exit_code, fs, opened,
                   evars, rvars>>

\* fallback, line 428: Repository::discover fails in another way
WFallbackErr ==
    /\ pc = "fallback"
    /\ ~opened.exists
    /\ fb_ret' = Err("discover")
    /\ run_result' = "discover"
    /\ pc' = "main"
    /\ UNCHANGED <<args, stack, ret, run_node, stdout, exit_code, fs, opened,
                   evars, rvars>>

\* fallback, lines 428-431: a repository is discovered (the one at the
\* starting path when there is one) and walk_repository is called on it
WFallbackRepo ==
    /\ pc = "fallback"
    /\ \E repo \in (IF opened.exists THEN {opened} ELSE WalkRepos) :
        LET result == walk_repository(repo, file_name(<<>>), args)
        IN  /\ fb_ret' = result
            /\ IF result.tag = "Err"
               THEN /\ run_result' = result.error
                    /\ pc' = "main"
                    /\ UNCHANGED run_node
               ELSE /\ run_node' = result
                    /\ pc' = "print"
                    /\ UNCHANGED run_result
    /\ UNCHANGED <<args, stack, ret, stdout, exit_code, fs, opened, evars, rvars>>

\* Display for Node, lines 294-302: each line of the node, followed by a
\* line break; println! in run then ends the output with an empty line
PrintedLines(ls) ==
    [i \in 1..Len(ls) |-> [kind |-> "line", text |-> ls[i], error |-> ""]]

Printed(n) ==
    PrintedLines(lines(n)) \o <<[kind |-> "line", text |-> <<>>, error |-> ""]>>

\* run, lines 476-481: the tree is printed, or that there is no repository
WPrint ==
    /\ pc = "print"
    /\ pc' = "main"
    /\ run_result' = "Ok"
    /\ stdout' = IF run_node.tag = "Some"
                 THEN Printed(run_node.node)
                 ELSE <<[kind |-> "no git repository found", text |-> <<>>, error |-> ""]>>
    /\ UNCHANGED <<args, stack, ret, run_node, exit_code, fs, opened, fb_ret,
                   evars, rvars>>

\* main, lines 484-488: an Err of run is printed; main returns
WMain ==
    /\ pc = "main"
    /\ stdout' = IF run_result # "Ok"
                 THEN Append(stdout, [kind |-> "error", text |-> <<>>, error |-> run_result])
                 ELSE stdout
    /\ exit_code' = MainExitCode
    /\ pc' = "exit"
    /\ UNCHANGED <<args, stack, ret, run_node, run_result, fs, opened, fb_ret,
                   evars, rvars>>

WNext ==
    \/ WRun
    \/ WPathNotDir
    \/ WPathRepo
    \/ WPathReadDirErr
    \/ WPathList
    \/ WPathNoDepth
    \/ WDirCall
    \/ WDirReturn
    \/ WPathReturn
    \/ WMatchErr
    \/ WMatchSome
    \/ WMatchNone
    \/ WFallbackNotFound
    \/ WFallbackErr
    \/ WFallbackRepo
    \/ WPrint
    \/ WMain

SpecWalk == WInit /\ [][WNext]_vars

\* the program runs on: a step that can be taken is taken
SpecWalkFair == SpecWalk /\ WF_vars(WNext)

----------------------------------------------------------------------------
\* Reading a rendered tree back, and the structure the claims compare it to.

\* every Tree node of a tree, the root included
RECURSIVE TreesOf(_)
TreesOf(node) ==
    IF node.kind # "Tree" THEN {}
    ELSE {node} \cup UNION {TreesOf(node.children[i].node) : i \in 1..Len(node.children)}

\* the entries of a map are in strictly ascending key order
Ascending(map) == \A i \in 1..(Len(map) - 1) : StrLess(map[i].key, map[i + 1].key)

\* the node reached from `node` by a sequence of child positions
RECURSIVE NodeAt(_, _)
NodeAt(node, ipath) ==
    IF ipath = <<>> THEN node
    ELSE NodeAt(node.children[Head(ipath)].node, Tail(ipath))

\* the positions of all nodes, depth first, a node before its children
RECURSIVE PreOrder(_)
PreOrder(node) ==
    IF node.kind # "Tree" THEN << <<>> >>
    ELSE << <<>> >> \o
         Flatten([i \in 1..Len(node.children) |->
                    LET sub == PreOrder(node.children[i].node)
                    IN  [k \in 1..Len(sub) |-> <<i>> \o sub[k]]])

\* the one line a node contributes by itself
LabelOf(node) ==
    CASE node.kind = "Leaf" -> LeafLines(node)[1]
      [] node.kind = "Summary" -> SummaryLines(node)[1]
      [] OTHER -> node.name

\* the left margin of the line of the node at ipath: one prefix per ancestor
\* level, a connector at the node's own level and a continuation above it
Margin(root, ipath) ==
    LET level(j) ==
            LET parent == NodeAt(root, SubSeq(ipath, 1, j - 1))
                isLast == ipath[j] = Len(parent.children)
            IN  IF j = Len(ipath)
                THEN (IF isLast THEN EllPrefix ELSE TeePrefix)
                ELSE (IF isLast THEN BlankPrefix ELSE BarPrefix)
    IN  Flatten([j \in 1..Len(ipath) |-> level(j)])

ExpectedLines(root) ==
    LET order == PreOrder(root)
    IN  [k \in 1..Len(order) |-> Margin(root, order[k]) \o LabelOf(NodeAt(root, order[k]))]

StartsWith(line, prefix) ==
    Len(line) >= Len(prefix) /\ SubSeq(line, 1, Len(prefix)) = prefix

\* the number of four-character prefixes a line starts with
RECURSIVE MarginDepth(_)
MarginDepth(line) ==
    IF StartsWith(line, BarPrefix) \/ StartsWith(line, BlankPrefix)
    THEN 1 + MarginDepth(SubSeq(line, 5, Len(line)))
    ELSE IF StartsWith(line, TeePrefix) \/ StartsWith(line, EllPrefix) THEN 1 ELSE 0

ParsedLabel(line) == SubSeq(line, 4 * MarginDepth(line) + 1, Len(line))

\* a Leaf's label starts with an escape sequence, a Branch's is its bare name
ParsedKind(line) == IF ParsedLabel(line)[1] = 27 THEN "Leaf" ELSE "Branch"

\* the name in a label: a Leaf's is the text of its last painted piece
ParsedName(line) ==
    LET label == ParsedLabel(line)
    IN  IF label[1] # 27 THEN label
        ELSE LET escapes == {i \in 1..Len(label) : label[i] = 27}
                 \* the last two escapes open and close the painted name
                 close == CHOOSE i \in escapes : \A j \in escapes : j <= i
                 open == CHOOSE i \in escapes \ {close} : \A j \in escapes \ {close} : j <= i
                 text == CHOOSE i \in (open + 1)..close : label[i] = 109
             IN  SubSeq(label, text + 1, close - 1)

\* the path of the line at position i: its name under the path of the
\* nearest line above it that is one level less deep
RECURSIVE ParsedPath(_, _)
ParsedPath(ls, i) ==
    LET d == MarginDepth(ls[i])
    IN  IF d = 0 THEN <<>>
        ELSE LET above == {j \in 1..(i - 1) : MarginDepth(ls[j]) = d - 1}
                 parent == CHOOSE j \in above : \A k \in above : k <= j
             IN  ParsedPath(ls, parent) \o <<ParsedName(ls[i])>>

Parsed(ls) ==
    {[path |-> ParsedPath(ls, i), kind |-> ParsedKind(ls[i])] : i \in 2..Len(ls)}

\* the directory structure of a set of status records
DirectoryStructure(items) ==
    {[path |-> it.path, kind |-> "Leaf"] : it \in items}
      \cup UNION {{[path |-> SubSeq(it.path, 1, k), kind |-> "Branch"] :
                     k \in 1..(Len(it.path) - 1)} : it \in items}

\* the tree built from a set of records taken in one fixed order
BuildFrom(items) == EntriesTree(DotName, items)

\* no record's path is the directory of another record
PrefixFree(items) ==
    \A x, y \in items :
        ~(Len(x.path) < Len(y.path) /\ SubSeq(y.path, 1, Len(x.path)) = x.path)

----------------------------------------------------------------------------
\* Claims about the tree and its rendering.

\* C1: the lines of a Branch are its name, then each child's lines in
\* ascending key order, a child's first line behind "├── " ("└── " for the
\* last child) and its other lines behind "│   " ("    " for the last
\* child); so each line is the label of one node, depth first, behind the
\* concatenation of the prefixes chosen at each ancestor level.  A Branch
\* without children is its name alone, and below a Branch with one child no
\* line of that Branch's own level carries "├── ".
C1_RenderedLines ==
    e_pc = "done" =>
        /\ e_out = ExpectedLines(e_root)
        /\ e_out[1] = e_root.name
        /\ \A t \in TreesOf(e_root) :
            /\ Ascending(t.children)
            /\ t.children = <<>> => lines(t) = <<t.name>>
            /\ Len(t.children) = 1 =>
                 \A k \in 2..Len(lines(t)) : ~StartsWith(lines(t)[k], TeePrefix)

\* a finished tree whose root has a Branch of two children before its
\* last child: all four prefixes are in the rendered lines
C1_Witness ==
    /\ e_pc = "done"
    /\ Len(e_root.children) = 2
    /\ e_root.children[1].node.kind = "Tree"
    /\ Len(e_root.children[1].node.children) = 2
    /\ StartsWith(e_out[2], TeePrefix)
    /\ StartsWith(e_out[3], BarPrefix \o TeePrefix)
    /\ StartsWith(e_out[4], BarPrefix \o EllPrefix)
    /\ StartsWith(e_out[5], EllPrefix)

\* C2: for records with pairwise distinct paths, the rendered tree read
\* back gives exactly the directory structure of the records: each path a
\* Leaf under the chain of its directories, and no other line.
C2_RoundTrip ==
    e_pc = "done" =>
        /\ Parsed(e_out) = DirectoryStructure(Accepted(args.all, e_items))
        /\ Len(e_out) = 1 + Cardinality(DirectoryStructure(Accepted(args.all, e_items)))

\* the round trip for records none of which names a directory of another
C2_RoundTripPrefixFree ==
    (e_pc = "done" /\ PrefixFree(Accepted(args.all, e_items))) =>
        /\ Parsed(e_out) = DirectoryStructure(Accepted(args.all, e_items))
        /\ Len(e_out) = 1 + Cardinality(DirectoryStructure(Accepted(args.all, e_items)))

\* C3: the tree, and so the rendered lines, depend on the set of records
\* only, never on the order they were inserted in: whatever order the items
\* came in, the tree is the one built from the same records in one fixed
\* order, and every Branch holds its children in strictly ascending
\* lexicographic order of their names.
C3_OrderIndependent ==
    /\ e_root = BuildFrom(Accepted(args.all, e_items))
    /\ \A t \in TreesOf(e_root) : Ascending(t.children)
    /\ e_pc = "done" => e_out = lines(BuildFrom(Accepted(args.all, e_items)))

\* three records were inserted with the largest name first, one of them a
\* file that another record's path names as a directory
C3_Witness ==
    /\ e_pc = "done"
    /\ Cardinality(Accepted(args.all, e_items)) = 3
    /\ ~PrefixFree(Accepted(args.all, e_items))
    /\ Len(e_root.children) >= 2

----------------------------------------------------------------------------
\* Claims about walk_repository, the walk and the program.

\* whether the node a walk returned holds a node at a path of child names
RECURSIVE HasNodeAt(_, _)
HasNodeAt(n, path) ==
    IF path = <<>> THEN TRUE
    ELSE /\ n.kind = "Tree"
         /\ BTreeHas(n.children, Head(path))
         /\ HasNodeAt(BTreeGet(n.children, Head(path)), Tail(path))

RECURSIVE NodeAtPath(_, _)
NodeAtPath(n, path) ==
    IF path = <<>> THEN n ELSE NodeAtPath(BTreeGet(n.children, Head(path)), Tail(path))

\* the path is in the tree the top-level walk_path returned
Present(path) == ret.tag = "Some" /\ HasNodeAt(ret.node, path)

HasKind(path, kinds) == \E r \in fs : r.path = path /\ r.kind \in kinds

RepoKinds == {"repo_node", "repo_none", "repo_err"}

\* C4: below a starting directory that is not a repository, a repository
\* that yields a node and lies k >= 1 levels down, under plain directories,
\* is in the tree walk_path returns, under the chain of directory names, if
\* and only if k <= depth; with depth 0 walk_path returns no node.
C4_DepthSemantics ==
    ret.tag # "Pending" =>
        /\ \A r \in fs :
             (r.kind \in {"repo_node", "repo_deep"} /\ Len(r.path) >= 1) =>
                 /\ Present(r.path) <=> Len(r.path) <= args.depth
                 /\ Present(r.path) =>
                      NodeAtPath(ret.node, r.path).name = r.path[Len(r.path)]
        /\ (args.depth = 0 /\ ~HasKind(<<>>, RepoKinds)) => ret.tag = "None"

\* with depth 2 a repository two levels down is in the tree and one three
\* levels down is not
C4_Witness ==
    /\ pc = "exit"
    /\ args.depth = 2
    /\ \E r \in fs : r.kind = "repo_node" /\ Len(r.path) = 2 /\ Present(r.path)
    /\ \E r \in fs : r.kind = "repo_deep" /\ Len(r.path) = 3 /\ ~Present(r.path)

\* a starting directory that is no repository, with depth 0 and a
\* repository as its direct child: no node
C4_WitnessDepth0 ==
    /\ ret.tag = "None"
    /\ args.depth = 0
    /\ HasKind(<<>>, {"dir0"})
    /\ \E r \in fs : r.kind = "repo_deep" /\ Len(r.path) = 1

\* C5: fallback is called only when the top-level walk returned no node for
\* a starting path that is no repository (and was not descended into); when
\* the starting path is a repository, fallback is never called.
C5_FallbackOnlyWithoutRepository ==
    fb_ret.tag # "Pending" =>
        /\ ret.tag = "None"
        /\ ~opened.exists
        /\ HasKind(<<>>, {"dir0", "file"})

\* fallback is called whenever the top-level walk returned no node, and
\* only then
C5_FallbackWhenNone ==
    fb_ret.tag # "Pending" => ret.tag = "None"

\* C6: when run returns an Err, one error line is printed to standard
\* output and the process ends with a status other than success (0).
C6_ErrorExit ==
    (pc = "exit" /\ run_result # "Ok") =>
        /\ stdout = <<[kind |-> "error", text |-> <<>>, error |-> run_result]>>
        /\ exit_code # 0

\* the part of C6 about the output alone
C6_ErrorLine ==
    (pc = "exit" /\ run_result # "Ok") =>
        stdout = <<[kind |-> "error", text |-> <<>>, error |-> run_result]>>

\* C7: an Err of the top-level walk_path or of fallback is what run returns
\* and main prints.  A failure below the starting directory (an unreadable
\* entry, a read_dir that fails, a repository whose status or statistics
\* fail) aborts nothing: the top-level walk returns a tree, the failed
\* entry is not in it, and every entry that yields a node (a repository
\* with a node, a listed directory) is in it.
C7_FailurePropagation ==
    /\ (pc = "exit" /\ (ret.tag = "Err" \/ fb_ret.tag = "Err")) =>
          /\ run_result = (IF ret.tag = "Err" THEN ret.error ELSE fb_ret.error)
          /\ stdout = <<[kind |-> "error", text |-> <<>>, error |-> run_result]>>
    /\ ret.tag # "Pending" =>
          \A r \in fs :
              Len(r.path) >= 1 =>
                  /\ r.kind \in {"bad", "unreadable", "repo_err"} =>
                        (ret.tag = "Some" /\ ~Present(r.path))
                  /\ r.kind \in {"repo_node", "dir"} => Present(r.path)

\* a directory with an unreadable entry, a repository that fails and a
\* repository that yields a node: the tree holds the last one alone
C7_Witness ==
    /\ pc = "exit"
    /\ run_result = "Ok"
    /\ \E r \in fs : r.kind = "bad" /\ Len(r.path) = 1
    /\ \E r \in fs : r.kind = "repo_err" /\ Len(r.path) = 1
    /\ \E r \in fs : r.kind = "repo_node" /\ Len(r.path) = 1 /\ Present(r.path)
    /\ Len(ret.node.children) = 1

\* the top-level read_dir fails: the error is printed
C7_WitnessTopLevel ==
    /\ pc = "exit"
    /\ ret.tag = "Err"
    /\ HasKind(<<>>, {"unreadable"})
    /\ Len(stdout) = 1

\* C8: in summary mode, for a repository whose statistics are computed,
\* walk_summary yields no node when only_show_changes is set and
\* insertions and deletions are both 0, whatever files_changed is; in
\* every other case it yields a Summary with the repository's name and
\* the statistics as they are.
C8_SummarySuppression ==
    (r_result.tag # "Pending" /\ args.summary /\ r_repo.ok) =>
        IF args.only_show_changes /\ r_repo.stats.insertions = 0
             /\ r_repo.stats.deletions = 0
        THEN r_result.tag = "None"
        ELSE /\ r_result.tag = "Some"
             /\ r_result.node = MkSummary(r_name, r_repo.stats)

\* no node for a repository with a changed file but no inserted or
\* deleted line
C8_Witness ==
    /\ r_result.tag = "None"
    /\ args.summary
    /\ args.only_show_changes
    /\ r_repo.stats.files_changed = 1
    /\ r_repo.stats.insertions = 0
    /\ r_repo.stats.deletions = 0

\* C9: with depth > 0 and a starting path that is a directory, not a
\* repository, whose read_dir succeeds, the top-level walk_path returns a
\* Branch named "."; every directory that was listed is a Branch in it
\* whose children are exactly its entries that yield a node, so none when
\* nothing was found; fallback is never called and run returns no error.
C9_BranchAlways ==
    (args.depth > 0 /\ HasKind(<<>>, {"dir"})) =>
        /\ fb_ret.tag = "Pending"
        /\ run_result \in {"none", "Ok"}
        /\ ret.tag # "Pending" =>
             /\ ret.tag = "Some"
             /\ ret.node.kind = "Tree"
             /\ ret.node.name = DotName
             /\ \A d \in fs :
                  d.kind = "dir" =>
                      /\ Present(d.path)
                      /\ NodeAtPath(ret.node, d.path).kind = "Tree"
                      /\ {c.key : c \in {NodeAtPath(ret.node, d.path).children[i] :
                                   i \in 1..Len(NodeAtPath(ret.node, d.path).children)}}
                           = {n \in EntryNames :
                                HasKind(d.path \o <<n>>, {"repo_node", "dir"})}

\* no repository anywhere: the tree is "." with one child, an empty Branch
C9_Witness ==
    /\ pc = "exit"
    /\ run_result = "Ok"
    /\ args.depth = 2
    /\ \A r \in fs : r.kind \in {"dir", "file"}
    /\ Len(ret.node.children) = 1
    /\ ret.node.children[1].node = MkTree(<<97>>, <<>>)
    /\ Len(stdout) = 3

\* the depths of the calls in progress: never below 0, each the depth given
\* to run less the call's level below the starting path, and above 0 in
\* walk_directory; no directory more than depth levels down is listed
Budget ==
    /\ \A i \in 1..Len(stack) :
         /\ stack[i].depth >= 0
         /\ stack[i].depth = args.depth - Len(stack[i].path)
         /\ stack[i].fn = "walk_directory" => stack[i].depth > 0
    /\ \A r \in fs : r.kind \in {"dir", "listed"} => Len(r.path) <= args.depth

\* C10: the walk ends, whatever the directories hold, and its depth never
\* goes below 0: walk_directory runs with depth > 0 only, each walk_path it
\* calls gets depth - 1, and nothing more than depth levels below the
\* starting path is listed.
C10_BoundedWalk == [](Budget) /\ <>(pc = "exit")

\* the walk went as deep as depth 2 lets it and met a directory there,
\* which it did not list
C10_Witness ==
    /\ pc = "walk"
    /\ args.depth = 2
    /\ Len(stack) = 5
    /\ Top.depth = 0
    /\ HasKind(Top.path, {"dir0"})

====
